---- MODULE Spec2Model ----
(***************************************************************************)
(* Model of databricks_openai.VectorSearchRetrieverTool:                   *)
(*   _validate_tool_inputs  (the post-construction validator) and          *)
(*   execute                (the retrieval call).                          *)
(* Python strings that the code splits, replaces, slices or upper-cases    *)
(* are sequences of one-character strings.  Optional values are <<>>       *)
(* (None) or <<v>>.                                                        *)
(***************************************************************************)
EXTENDS Integers, Sequences, FiniteSets, TLC

VARIABLES phase, self, index_details, get_index_calls, endpoint_lookup, error,
          calls

vars == <<phase, self, index_details, get_index_calls, endpoint_lookup, error,
          calls>>

----------------------------------------------------------------------------
(* Bounds and program constants *)

MaxToolNameLen == 64
MaxShortLen == 3
MaxDim == 3
MaxRows == 2

None == <<>>
Some(x) == <<x>>
Truthy(o) == o # None /\ Len(o[1]) > 0

Callers == {"c1", "c2"}

----------------------------------------------------------------------------
(* Strings *)

Alphabet == <<"a", "b", "c", "d", "e", "f", "g">>
Chr(i) == Alphabet[(i % Len(Alphabet)) + 1]
Name(n) == [i \in 1..n |-> Chr(i)]

RECURSIVE SeqsUpTo(_, _)
SeqsUpTo(S, n) ==
  IF n = 0 THEN {<<>>}
  ELSE LET shorter == SeqsUpTo(S, n - 1)
       IN shorter \cup {Append(s, c) : s \in shorter, c \in S}

ShortIndexNames == SeqsUpTo({"a", "."}, MaxShortLen)
LongIndex(n) == Name(n) \o <<".", "s", ".", "i">>
LongIndexNames == {LongIndex(MaxToolNameLen - 6), LongIndex(MaxToolNameLen - 5)}
IndexNames == ShortIndexNames \cup LongIndexNames

ToolNames ==
  {None, Some(<<>>), Some(<<"t">>), Some(Name(MaxToolNameLen)),
   Some(Name(MaxToolNameLen + 1))}

EmbeddingModelNames == {None, Some(<<>>), Some(<<"e">>)}

QueryTypes ==
  {None, Some(<<>>), Some(<<"A", "N", "N">>),
   Some(<<"H", "Y", "B", "R", "I", "D">>),
   Some(<<"h", "y", "b", "r", "i", "d">>),
   Some(<<"H", "y", "B", "r", "i", "D">>),
   Some(<<"h", "y", "b", "r", "i">>)}

Queries == {"foo", "bar"}

(* str.split(".") *)
RECURSIVE split(_)
split(s) ==
  IF \A i \in 1..Len(s) : s[i] # "."
  THEN <<s>>
  ELSE LET i == CHOOSE k \in 1..Len(s) :
                  s[k] = "." /\ \A j \in 1..(k - 1) : s[j] # "."
       IN <<SubSeq(s, 1, i - 1)>> \o split(SubSeq(s, i + 1, Len(s)))

(* str.replace(".", "__") *)
RECURSIVE replace(_)
replace(s) ==
  IF s = <<>> THEN <<>>
  ELSE (IF Head(s) = "." THEN <<"_", "_">> ELSE <<Head(s)>>) \o replace(Tail(s))

upperChar(c) ==
  CASE c = "a" -> "A" [] c = "b" -> "B" [] c = "d" -> "D" [] c = "h" -> "H"
    [] c = "i" -> "I" [] c = "n" -> "N" [] c = "r" -> "R" [] c = "y" -> "Y"
    [] OTHER -> c

(* str.upper() *)
upper(s) == [i \in 1..Len(s) |-> upperChar(s[i])]

HYBRID == <<"H", "Y", "B", "R", "I", "D">>

----------------------------------------------------------------------------
(* External collaborators: what they can answer *)

(* IndexDetails of the index found by get_index: managed or self-managed   *)
(* embeddings, the declared embedding dimension (absent or positive), the  *)
(* embedding source column of a managed index.                             *)
IndexMetadata ==
  [managed : BOOLEAN, embedding_dimension : {None, Some(MaxDim)}]

SourceColumn == "text"
IndexColumns == {"id", "text"}

TextColumns == {None, Some("text")}
ReturnColumns == {<<>>, <<"zzz">>}

(* WorkspaceClient().serving_endpoints.get(...) *)
LookupOutcomes == {"found", "ResourceDoesNotExist", "OtherError"}

(* The environment of one construction *)
Environments ==
  [index_exists : BOOLEAN, details : IndexMetadata, lookup : LookupOutcomes]

(* The constructor arguments *)
RawConfigs ==
  [index_name : IndexNames, tool_name : ToolNames,
   tool_description : {None, Some("custom")}, text_column : TextColumns,
   columns : ReturnColumns, filters : {None}, num_results : {5},
   query_type : QueryTypes, embedding_model_name : EmbeddingModelNames]

(* The result of a call that may raise *)
Ok(v) == [ok |-> TRUE, value |-> v]
Raise == [ok |-> FALSE, value |-> <<>>]

(* The configurations execute is exercised on: execute reads neither the  *)
(* index name nor the tool name and description overrides.                *)
ExecuteIndexName == <<"c", ".", "s", ".", "i">>
ExecuteConfigs ==
  [index_name : {ExecuteIndexName}, tool_name : {None},
   tool_description : {None}, text_column : {Some("text")},
   columns : {<<>>}, filters : {None}, num_results : {5},
   query_type : QueryTypes, embedding_model_name : EmbeddingModelNames]

NoError == [kind |-> "none", expected |-> 0, got |-> 0]
Error(kind) == [kind |-> kind, expected |-> 0, got |-> 0]

----------------------------------------------------------------------------
(* _validate_tool_inputs *)

IndexNameInvalidAtLeast(index_name) == Len(split(index_name)) < 3

(* len(splits) != 3 *)
IndexNameInvalid(index_name) == Len(split(index_name)) # 3

(* validate_and_get_text_column: the text column is required when the    *)
(* index does not manage its embeddings                                   *)
validate_and_get_text_column(text_column, details) ==
  IF details.managed
  THEN Ok(Some(SourceColumn))
  ELSE IF text_column = None THEN Raise ELSE Ok(text_column)

(* validate_and_get_return_columns: raises on an unknown column *)
validate_and_get_return_columns(columns, text_column, details) ==
  IF \E i \in 1..Len(columns) : columns[i] \notin IndexColumns
  THEN Raise
  ELSE Ok(columns)

EmbeddingModelMissingIsNone(details, embedding_model_name) ==
  ~details.managed /\ embedding_model_name = None

(* not is_databricks_managed_embeddings() and not embedding_model_name *)
EmbeddingModelMissing(details, embedding_model_name) ==
  ~details.managed /\ ~Truthy(embedding_model_name)

get_tool_name_head(tool_name, index_name) ==
  LET name == IF Truthy(tool_name) THEN tool_name[1] ELSE replace(index_name)
  IN IF Len(name) > MaxToolNameLen
     THEN SubSeq(name, 1, MaxToolNameLen)
     ELSE name

get_tool_name(tool_name, index_name) ==
  LET name == IF Truthy(tool_name) THEN tool_name[1] ELSE replace(index_name)
  IN IF Len(name) > MaxToolNameLen
     THEN SubSeq(name, Len(name) - MaxToolNameLen + 1, Len(name))
     ELSE name

_get_default_tool_description(details) == "default"

(* pydantic_function_tool(VectorSearchRetrieverToolInput, name, description) *)
pydantic_function_tool(name, description) ==
  Some([name |-> name, description |-> description])

(* _get_resources(index_name, embedding_endpoint) *)
_get_resources(index_name, embedding_endpoint) ==
  (IF Len(index_name) > 0 THEN <<[kind |-> "index", name |-> index_name]>> ELSE <<>>)
  \o (IF Truthy(embedding_endpoint)
      THEN <<[kind |-> "endpoint", name |-> embedding_endpoint[1]]>>
      ELSE <<>>)

LookupResourcesSwallow(lookup, index_name, embedding_model_name) ==
  CASE lookup = "found" -> Ok(_get_resources(index_name, embedding_model_name))
    [] OTHER -> Ok(_get_resources(index_name, None))

(* The try/except around the serving-endpoint lookup: the resources, or   *)
(* any other exception propagates.                                        *)
LookupResources(lookup, index_name, embedding_model_name) ==
  CASE lookup = "found" -> Ok(_get_resources(index_name, embedding_model_name))
    [] lookup = "ResourceDoesNotExist" -> Ok(_get_resources(index_name, None))
    [] OTHER -> Raise

Unvalidated ==
  [index_name |-> <<>>, tool_name |-> None, tool_description |-> None,
   text_column |-> None, columns |-> <<>>, filters |-> None,
   num_results |-> 5, query_type |-> None, embedding_model_name |-> None,
   resources |-> <<>>, tool |-> None]

(* The object, its cached metadata, the number of metadata fetches and    *)
(* the outcome, after the validator has run on raw in environment env.    *)
Outcome(obj, details, fetches, lookup, err) ==
  [self |-> obj, index_details |-> details, get_index_calls |-> fetches,
   endpoint_lookup |-> lookup, error |-> err]

ValidateToolInputs(raw, env) ==
  LET obj0 == [Unvalidated EXCEPT
                 !.index_name = raw.index_name, !.tool_name = raw.tool_name,
                 !.tool_description = raw.tool_description,
                 !.text_column = raw.text_column, !.columns = raw.columns,
                 !.filters = raw.filters, !.num_results = raw.num_results,
                 !.query_type = raw.query_type,
                 !.embedding_model_name = raw.embedding_model_name]
  IN
  IF IndexNameInvalid(raw.index_name)
  THEN Outcome(obj0, None, 0, "not attempted",
               Error("ValueError: index name format"))
  ELSE IF ~env.index_exists
  THEN Outcome(obj0, None, 1, "not attempted", Error("get_index failed"))
  ELSE
  LET details == env.details
      tc == validate_and_get_text_column(raw.text_column, details)
  IN
  IF ~tc.ok
  THEN Outcome(obj0, Some(details), 1, "not attempted",
               Error("ValueError: text_column required"))
  ELSE
  LET obj1 == [obj0 EXCEPT !.text_column = tc.value]
      cols == validate_and_get_return_columns(raw.columns, tc.value, details)
  IN
  IF ~cols.ok
  THEN Outcome(obj1, Some(details), 1, "not attempted",
               Error("ValueError: unknown column"))
  ELSE
  LET obj2 == [obj1 EXCEPT !.columns = cols.value] IN
  IF EmbeddingModelMissing(details, raw.embedding_model_name)
  THEN Outcome(obj2, Some(details), 1, "not attempted",
               Error("ValueError: embedding model name required"))
  ELSE
  LET description == IF raw.tool_description # None
                     THEN raw.tool_description[1]
                     ELSE _get_default_tool_description(details)
      obj3 == [obj2 EXCEPT !.tool =
                 pydantic_function_tool(
                   get_tool_name(raw.tool_name, raw.index_name), description)]
      res == LookupResources(env.lookup, raw.index_name,
                             raw.embedding_model_name)
  IN
  IF ~res.ok
  THEN Outcome(obj3, Some(details), 1, env.lookup,
               Error("serving endpoint lookup failed"))
  ELSE Outcome([obj3 EXCEPT !.resources = res.value], Some(details), 1,
               env.lookup, NoError)

Validate(configs) ==
  /\ phase = "unvalidated"
  /\ \E raw \in configs, env \in Environments :
       LET out == ValidateToolInputs(raw, env) IN
       /\ self' = out.self
       /\ index_details' = out.index_details
       /\ get_index_calls' = out.get_index_calls
       /\ endpoint_lookup' = out.endpoint_lookup
       /\ error' = out.error
       /\ phase' = IF out.error = NoError THEN "ready" ELSE "failed"
  /\ UNCHANGED calls

(* construction on any arguments *)
Construct == Validate(RawConfigs)

(* construction of the tools execute is called on *)
ConstructTool == Validate(ExecuteConfigs)

----------------------------------------------------------------------------
(* execute *)

(* The embedding vector of a query: VectorOf(n) has n components *)
VectorOf(n) == [i \in 1..n |-> 1]
VectorLengths == (MaxDim - 1)..(MaxDim + 1)

(* openai_client argument: none, a client with an API key, one without *)
NoKey == [api_key |-> ""]
WithKey == [api_key |-> "sk"]
OpenAIClients == {None, Some(NoKey), Some(WithKey)}

(* OpenAI(): the default client of the environment, or it raises *)
DefaultClients == {Ok(NoKey), Ok(WithKey), Raise}

(* Rows of a similarity_search response: primary key, text column, score *)
Rows ==
  {[id |-> 1, text |-> "a", score |-> 9], [id |-> 2, text |-> "b", score |-> 5]}
SearchResponses == SeqsUpTo(Rows, MaxRows)

IdleCall ==
  [pc |-> "idle", query |-> "", openai_client |-> None, oai_client |-> None, constructed |-> FALSE,
   embedding_requests |-> 0, query_text |-> None, query_vector |-> None,
   search |-> None, docs_with_score |-> <<>>, result |-> <<>>,
   error |-> NoError]

(* parse_vector_search_response(..., document_class=dict) *)
parse_vector_search_response(search_resp, text_column) ==
  [i \in 1..Len(search_resp) |->
     <<[id |-> search_resp[i].id, text |-> search_resp[i].text],
       search_resp[i].score>>]

DocsReversed(docs_with_score) ==
  [i \in 1..Len(docs_with_score) |->
     docs_with_score[Len(docs_with_score) + 1 - i][1]]

(* [doc for doc, _ in docs_with_score] *)
Docs(docs_with_score) ==
  [i \in 1..Len(docs_with_score) |-> docs_with_score[i][1]]

ManagedQueryNoText(query) == [query_text |-> None, query_vector |-> None]

(* query_text, query_vector = query, None *)
ManagedQuery(query) == [query_text |-> Some(query), query_vector |-> None]

(* openai_client or OpenAI() *)
OaiClient(openai_client, default) ==
  IF openai_client # None THEN Ok(openai_client[1]) ELSE default

NoApiKeyUnchecked(oai_client) == FALSE

(* not oai_client.api_key *)
NoApiKey(oai_client) == oai_client.api_key = ""

QueryTextCaseSensitive(query, query_type) ==
  IF Truthy(query_type) /\ query_type[1] = HYBRID
  THEN Some(query)
  ELSE None

(* query if self.query_type and self.query_type.upper() == "HYBRID" else None *)
QueryText(query, query_type) ==
  IF Truthy(query_type) /\ upper(query_type[1]) = HYBRID
  THEN Some(query)
  ELSE None

DimensionMismatchLonger(embedding_dimension, query_vector) ==
  /\ embedding_dimension # None
  /\ embedding_dimension[1] # 0
  /\ Len(query_vector) > embedding_dimension[1]

(* the walrus test of the declared embedding dimension *)
DimensionMismatch(embedding_dimension, query_vector) ==
  /\ embedding_dimension # None
  /\ embedding_dimension[1] # 0
  /\ Len(query_vector) # embedding_dimension[1]

(* the arguments of self._index.similarity_search *)
SearchRequest(obj, query_text, query_vector) ==
  [columns |-> obj.columns, query_text |-> query_text,
   query_vector |-> query_vector, filters |-> obj.filters,
   num_results |-> obj.num_results, query_type |-> obj.query_type]

(* execute up to its first call of an external service *)
Begin(c) ==
  /\ phase = "ready"
  /\ calls[c].pc = "idle"
  /\ \E query \in Queries, openai_client \in OpenAIClients,
        default \in DefaultClients :
       IF index_details[1].managed
       THEN calls' = [calls EXCEPT ![c] =
              [IdleCall EXCEPT !.pc = "search", !.query = query,
                               !.openai_client = openai_client,
                               !.query_text = ManagedQuery(query).query_text,
                               !.query_vector =
                                  ManagedQuery(query).query_vector]]
       ELSE
         LET client == OaiClient(openai_client, default)
             made == openai_client = None
         IN IF ~client.ok
            THEN calls' = [calls EXCEPT ![c] =
                   [IdleCall EXCEPT !.pc = "failed", !.query = query,
                                    !.openai_client = openai_client,
                                    !.constructed = made,
                                    !.error = Error("OpenAI() failed")]]
            ELSE IF NoApiKey(client.value)
            THEN calls' = [calls EXCEPT ![c] =
                   [IdleCall EXCEPT !.pc = "failed", !.query = query,
                                    !.openai_client = openai_client,
                                    !.constructed = made,
                                    !.oai_client = Some(client.value),
                                    !.error = Error("ValueError: API key required")]]
            ELSE calls' = [calls EXCEPT ![c] =
                   [IdleCall EXCEPT !.pc = "embed", !.query = query,
                                    !.openai_client = openai_client,
                                    !.constructed = made,
                                    !.oai_client = Some(client.value),
                                    !.query_text =
                                       QueryText(query, self.query_type)]]
  /\ UNCHANGED <<phase, self, index_details, get_index_calls, endpoint_lookup,
                 error>>

(* oai_client.embeddings.create(...) and the dimension check *)
Embed(c) ==
  /\ calls[c].pc = "embed"
  /\ \/ \E n \in VectorLengths :
          LET query_vector == VectorOf(n)
              dim == index_details[1].embedding_dimension
          IN IF DimensionMismatch(dim, query_vector)
             THEN calls' = [calls EXCEPT
                    ![c].pc = "failed",
                    ![c].embedding_requests = @ + 1,
                    ![c].query_vector = Some(query_vector),
                    ![c].error = [kind |-> "ValueError: embedding dimension",
                                  expected |-> dim[1], got |-> n]]
             ELSE calls' = [calls EXCEPT
                    ![c].pc = "search",
                    ![c].embedding_requests = @ + 1,
                    ![c].query_vector = Some(query_vector)]
     \/ calls' = [calls EXCEPT ![c].pc = "failed",
                               ![c].embedding_requests = @ + 1,
                               ![c].error = Error("embeddings.create failed")]
  /\ UNCHANGED <<phase, self, index_details, get_index_calls, endpoint_lookup,
                 error>>

SearchRefetching(c) ==
  /\ calls[c].pc = "search"
  /\ LET request == SearchRequest(self, calls[c].query_text,
                                  calls[c].query_vector)
     IN \/ \E search_resp \in SearchResponses :
             LET docs_with_score ==
                   parse_vector_search_response(search_resp,
                                                self.text_column)
             IN calls' = [calls EXCEPT
                    ![c].pc = "done",
                    ![c].search = Some(request),
                    ![c].docs_with_score = docs_with_score,
                    ![c].result = Docs(docs_with_score)]
        \/ calls' = [calls EXCEPT
                    ![c].pc = "failed",
                    ![c].search = Some(request),
                    ![c].error = Error("similarity_search failed")]
  /\ get_index_calls' = get_index_calls + 1
  /\ UNCHANGED <<phase, self, index_details, endpoint_lookup, error>>

(* self._index.similarity_search(...), the parse and the return *)
Search(c) ==
  /\ calls[c].pc = "search"
  /\ LET request == SearchRequest(self, calls[c].query_text,
                                  calls[c].query_vector)
     IN \/ \E search_resp \in SearchResponses :
             LET docs_with_score ==
                   parse_vector_search_response(search_resp,
                                                self.text_column)
             IN calls' = [calls EXCEPT
                    ![c].pc = "done",
                    ![c].search = Some(request),
                    ![c].docs_with_score = docs_with_score,
                    ![c].result = Docs(docs_with_score)]
        \/ calls' = [calls EXCEPT
                    ![c].pc = "failed",
                    ![c].search = Some(request),
                    ![c].error = Error("similarity_search failed")]
  /\ UNCHANGED <<phase, self, index_details, get_index_calls, endpoint_lookup,
                 error>>

(* the caller takes the result or the exception; it may call again *)
Return(c) ==
  /\ calls[c].pc \in {"done", "failed"}
  /\ calls' = [calls EXCEPT ![c] = IdleCall]
  /\ UNCHANGED <<phase, self, index_details, get_index_calls, endpoint_lookup,
                 error>>

----------------------------------------------------------------------------

Init ==
  /\ phase = "unvalidated"
  /\ self = Unvalidated
  /\ index_details = None
  /\ get_index_calls = 0
  /\ endpoint_lookup = "not attempted"
  /\ error = NoError
  /\ calls = [c \in Callers |-> IdleCall]

Next ==
  \/ ConstructTool
  \/ \E c \in Callers : Begin(c)
  \/ \E c \in Callers : Embed(c)
  \/ \E c \in Callers : Search(c)
  \/ \E c \in Callers : Return(c)

Spec == Init /\ [][Next]_vars

(* construction alone, on every argument combination *)
NextConstruct == Construct

SpecConstruct == Init /\ [][NextConstruct]_vars

TypeOK ==
  /\ phase \in {"unvalidated", "ready", "failed"}
  /\ get_index_calls \in 0..1

----------------------------------------------------------------------------
(* Properties *)

Managed == index_details # None /\ index_details[1].managed
SelfManaged == index_details # None /\ ~index_details[1].managed

hybrid == <<"h", "y", "b", "r", "i", "d">>

(* the flag spells HYBRID in any mix of upper and lower case *)
IsHybridAnyCase(query_type) ==
  /\ query_type # None
  /\ Len(query_type[1]) = Len(HYBRID)
  /\ \A i \in 1..Len(HYBRID) : query_type[1][i] \in {HYBRID[i], hybrid[i]}

(* C1: on a managed-embeddings index every execute call searches with the *)
(* query text unchanged and no vector, constructs no embedding client and *)
(* makes no embedding request, whatever the query-type flag.              *)
C1_ManagedPassesTextOnly ==
  \A c \in Callers :
    (Managed /\ calls[c].pc # "idle") =>
      /\ calls[c].embedding_requests = 0
      /\ ~calls[c].constructed
      /\ calls[c].oai_client = None
      /\ calls[c].search # None =>
            /\ calls[c].search[1].query_text = Some(calls[c].query)
            /\ calls[c].search[1].query_vector = None

C1_Witness ==
  \E c \in Callers :
    /\ Managed /\ calls[c].pc = "done" /\ calls[c].query = "foo"
    /\ calls[c].openai_client = Some(WithKey)
    /\ IsHybridAnyCase(self.query_type)
    /\ calls[c].search[1].query_text = Some("foo")
    /\ calls[c].search[1].query_vector = None

(* C2: on a self-managed index a submitted search always carries the      *)
(* computed vector, and carries the query text exactly when the           *)
(* query-type flag is HYBRID in any letter case; otherwise the text is    *)
(* None.                                                                  *)
C2_HybridCarriesText ==
  \A c \in Callers :
    (SelfManaged /\ calls[c].search # None) =>
      /\ calls[c].search[1].query_vector # None
      /\ calls[c].search[1].query_vector = calls[c].query_vector
      /\ calls[c].embedding_requests = 1
      /\ IsHybridAnyCase(self.query_type) =>
            calls[c].search[1].query_text = Some(calls[c].query)
      /\ ~IsHybridAnyCase(self.query_type) =>
            calls[c].search[1].query_text = None

C2_Witness ==
  \E c \in Callers :
    /\ SelfManaged /\ calls[c].pc = "done"
    /\ self.query_type = Some(<<"H", "y", "B", "r", "i", "D">>)
    /\ calls[c].search[1].query_text = Some(calls[c].query)
    /\ calls[c].search[1].query_vector # None

DimensionError(c) == calls[c].error.kind = "ValueError: embedding dimension"

(* C3: on a self-managed index, a computed vector whose length differs    *)
(* from the declared embedding dimension makes execute fail with an error *)
(* naming both values and no search is submitted; with equal lengths or   *)
(* no declared dimension execute goes on to the search.                   *)
C3_DimensionMismatchFails ==
  \A c \in Callers :
    (SelfManaged /\ calls[c].query_vector # None) =>
      LET dim == index_details[1].embedding_dimension
          n == Len(calls[c].query_vector[1])
      IN /\ (dim # None /\ n # dim[1]) =>
               /\ calls[c].pc = "failed"
               /\ DimensionError(c)
               /\ calls[c].error.expected = dim[1]
               /\ calls[c].error.got = n
               /\ calls[c].search = None
         /\ (dim = None \/ n = dim[1]) =>
               /\ ~DimensionError(c)
               /\ \/ calls[c].pc = "search"
                  \/ calls[c].search # None

C3_Witness ==
  \E c \in Callers :
    /\ SelfManaged /\ calls[c].pc = "failed" /\ DimensionError(c)
    /\ calls[c].error.expected = MaxDim
    /\ calls[c].error.got = MaxDim - 1
    /\ calls[c].search = None

Dots(s) == Cardinality({i \in 1..Len(s) : s[i] = "."})

(* C4: construction on an index identifier that does not contain exactly  *)
(* two dots fails with the index-name configuration error before the      *)
(* index is fetched and before the tool descriptor is built.              *)
C4_BadIndexNameFailsFast ==
  (phase # "unvalidated" /\ Dots(self.index_name) # 2) =>
    /\ phase = "failed"
    /\ error.kind = "ValueError: index name format"
    /\ get_index_calls = 0
    /\ index_details = None
    /\ self.tool = None
    /\ endpoint_lookup = "not attempted"

C4_Witness ==
  /\ phase = "failed"
  /\ self.index_name = <<".", ".", ".">>
  /\ error.kind = "ValueError: index name format"
  /\ get_index_calls = 0

ConfigurationErrors ==
  {"ValueError: text_column required", "ValueError: unknown column",
   "ValueError: embedding model name required"}

(* C5: construction on a self-managed index without an embedding model    *)
(* identifier (absent or empty) fails with a configuration error; on a    *)
(* managed index the missing identifier never raises that error.          *)
C5_EmbeddingModelRequired ==
  /\ (phase # "unvalidated" /\ SelfManaged
        /\ ~Truthy(self.embedding_model_name)) =>
       /\ phase = "failed"
       /\ error.kind \in ConfigurationErrors
       /\ self.tool = None
  /\ (phase # "unvalidated" /\ SelfManaged
        /\ ~Truthy(self.embedding_model_name)
        /\ self.text_column # None
        /\ \A i \in 1..Len(self.columns) : self.columns[i] \in IndexColumns) =>
       error.kind = "ValueError: embedding model name required"
  /\ Managed => error.kind # "ValueError: embedding model name required"

C5_Witness ==
  /\ phase = "failed" /\ SelfManaged
  /\ self.embedding_model_name = Some(<<>>)
  /\ error.kind = "ValueError: embedding model name required"

(* s with every dot replaced by two underscores: character i of s lands  *)
(* at position i plus the number of dots before it                        *)
DotsDoubled(s) ==
  [k \in 1..(Len(s) + Dots(s)) |->
     LET i == CHOOSE j \in 1..Len(s) :
                LET at == j + Dots(SubSeq(s, 1, j - 1))
                IN k = at \/ (s[j] = "." /\ k = at + 1)
     IN IF s[i] = "." THEN "_" ELSE s[i]]

(* name is base, cut to its last MaxToolNameLen characters when longer *)
LastCharacters(base, name) ==
  IF Len(base) > MaxToolNameLen
  THEN /\ Len(name) = MaxToolNameLen
       /\ \A i \in 1..MaxToolNameLen :
            name[i] = base[Len(base) - MaxToolNameLen + i]
  ELSE name = base

(* C6: after a successful construction the tool name is the override if   *)
(* given, else the index identifier with each dot doubled to underscores, *)
(* cut to its last 64 characters when longer; it never exceeds 64.        *)
C6_ToolName ==
  phase = "ready" =>
    LET name == self.tool[1].name IN
    /\ Len(name) <= MaxToolNameLen
    /\ IF Truthy(self.tool_name)
       THEN LastCharacters(self.tool_name[1], name)
       ELSE LastCharacters(DotsDoubled(self.index_name), name)

C6_Witness ==
  /\ phase = "ready"
  /\ self.tool_name # None
  /\ Len(self.tool_name[1]) = MaxToolNameLen + 1
  /\ self.tool[1].name = Tail(self.tool_name[1])

EndpointResources ==
  {i \in 1..Len(self.resources) : self.resources[i].kind = "endpoint"}

(* C7: a found serving endpoint puts the embedding model in the resource  *)
(* list, a not-found lookup leaves construction successful with the       *)
(* resource list lacking it, any other lookup failure fails construction; *)
(* the lookup is made in every configuration that reaches it.             *)
C7_LookupBestEffort ==
  /\ endpoint_lookup = "found" =>
       /\ phase = "ready"
       /\ Truthy(self.embedding_model_name) =>
            \E i \in EndpointResources :
              self.resources[i].name = self.embedding_model_name[1]
  /\ endpoint_lookup = "ResourceDoesNotExist" =>
       /\ phase = "ready"
       /\ EndpointResources = {}
       /\ self.resources = <<[kind |-> "index", name |-> self.index_name]>>
  /\ endpoint_lookup = "OtherError" =>
       /\ phase = "failed"
       /\ error.kind = "serving endpoint lookup failed"
  /\ phase = "ready" => endpoint_lookup \in {"found", "ResourceDoesNotExist"}

C7_Witness ==
  /\ Managed /\ self.embedding_model_name = None
  /\ endpoint_lookup = "OtherError"
  /\ phase = "failed"

(* C8: on a self-managed index execute uses the caller's client if given, *)
(* else a default-constructed one; a client without an API key makes      *)
(* execute fail with a configuration error before any embedding or search *)
(* request.                                                               *)
C8_ApiKeyRequired ==
  \A c \in Callers :
    (SelfManaged /\ calls[c].pc # "idle") =>
      /\ calls[c].constructed <=> calls[c].openai_client = None
      /\ calls[c].openai_client # None =>
            calls[c].oai_client = calls[c].openai_client
      /\ (calls[c].oai_client # None /\ calls[c].oai_client[1].api_key = "") =>
            /\ calls[c].pc = "failed"
            /\ calls[c].error.kind = "ValueError: API key required"
            /\ calls[c].embedding_requests = 0
            /\ calls[c].search = None
      /\ calls[c].oai_client = None =>
            /\ calls[c].pc = "failed"
            /\ calls[c].embedding_requests = 0
            /\ calls[c].search = None

C8_Witness ==
  \E c \in Callers :
    /\ SelfManaged /\ calls[c].pc = "failed"
    /\ calls[c].openai_client = Some(NoKey)
    /\ calls[c].error.kind = "ValueError: API key required"
    /\ calls[c].embedding_requests = 0

(* C9: once construction has succeeded, no step of any execute call,      *)
(* however the calls interleave, changes the configuration, the cached    *)
(* index metadata or the tool descriptor, and the metadata is fetched     *)
(* exactly once.                                                          *)
C9_ExecuteOnlyReads ==
  [][phase = "ready" =>
       /\ self' = self
       /\ index_details' = index_details
       /\ get_index_calls = 1 /\ get_index_calls' = 1
       /\ phase' = "ready"]_vars

C9_Witness ==
  /\ phase = "ready"
  /\ calls["c1"].pc = "done" /\ calls["c1"].search # None
  /\ calls["c2"].pc = "failed" /\ calls["c2"].embedding_requests = 1
  /\ get_index_calls = 1

(* C10: a successful execute returns the documents of the parsed          *)
(* (document, score) pairs: as many, in the index's order, each document  *)
(* unchanged, scores dropped, duplicates kept.                            *)
C10_DocumentsInOrder ==
  \A c \in Callers :
    calls[c].pc = "done" =>
      /\ Len(calls[c].result) = Len(calls[c].docs_with_score)
      /\ \A i \in 1..Len(calls[c].result) :
           calls[c].result[i] = calls[c].docs_with_score[i][1]
      /\ calls[c].docs_with_score =
            <<<<[id |-> 1, text |-> "a"], 9>>, <<[id |-> 2, text |-> "b"], 5>>>>
          => calls[c].result = <<[id |-> 1, text |-> "a"], [id |-> 2, text |-> "b"]>>

C10_Witness ==
  \E c \in Callers :
    /\ calls[c].pc = "done"
    /\ calls[c].docs_with_score =
         <<<<[id |-> 2, text |-> "b"], 5>>, <<[id |-> 1, text |-> "a"], 9>>>>
    /\ calls[c].result = <<[id |-> 2, text |-> "b"], [id |-> 1, text |-> "a"]>>

====
